---- MODULE Spec2Model ----
(***************************************************************************)
(* Model of blender_render_labeling.py: the Box value type, the projection *)
(* of a mesh into the camera's image plane (camera_view_bounds_2d), the    *)
(* label encoding (to_tuple, write_bounds_2d, normalize) and the frame     *)
(* loop of main that writes one label file per frame.                      *)
(*                                                                         *)
(* Python floats are modelled as exact rationals <<numerator, denominator>>*)
(* kept in lowest terms with a positive denominator, so equality of values *)
(* is equality of pairs.  Rounding of IEEE doubles is outside the model.   *)
(***************************************************************************)
EXTENDS Integers, Sequences, FiniteSets, TLC

\* ------------------------------------------------------------------ bounds
MaxCoord == 2        \* vertex x and y coordinates range over -MaxCoord..MaxCoord
MaxVerts == 2        \* a mesh has 0..MaxVerts vertices
MaxFrame == 2        \* frame_start and frame_end range over 0..MaxFrame
MaxObjects == 2      \* number of labeled objects in the scene

\* ------------------------------------------------------- exact rationals
Abs(n) == IF n < 0 THEN -n ELSE n

RECURSIVE GCD(_, _)
GCD(a, b) == IF b = 0 THEN a ELSE GCD(b, a % b)

\* n/d in lowest terms, d > 0  (d # 0 is the caller's obligation)
Rat(n, d) ==
  LET g == GCD(Abs(n), Abs(d))
      s == IF d < 0 THEN -1 ELSE 1
  IN  << (s * n) \div g, (s * d) \div g >>

Int2Rat(n) == << n, 1 >>
Zero == << 0, 1 >>
One == << 1, 1 >>
Half == << 1, 2 >>

RAdd(a, b) == Rat(a[1] * b[2] + b[1] * a[2], a[2] * b[2])
RSub(a, b) == Rat(a[1] * b[2] - b[1] * a[2], a[2] * b[2])
RMul(a, b) == Rat(a[1] * b[1], a[2] * b[2])
RDiv(a, b) == Rat(a[1] * b[2], a[2] * b[1])
RNeg(a) == << -a[1], a[2] >>
RLe(a, b) == a[1] * b[2] <= b[1] * a[2]
RLt(a, b) == a[1] * b[2] < b[1] * a[2]
RMin(a, b) == IF RLt(b, a) THEN b ELSE a
RMax(a, b) == IF RLt(a, b) THEN b ELSE a

RECURSIVE SeqMin(_)
SeqMin(s) == IF Len(s) = 1 THEN s[1] ELSE RMin(s[1], SeqMin(Tail(s)))

RECURSIVE SeqMax(_)
SeqMax(s) == IF Len(s) = 1 THEN s[1] ELSE RMax(s[1], SeqMax(Tail(s)))

\* ---------------------------------------------------------- scene inputs
\* Python's None where a tuple is expected (write_bounds_2d's result)
None == << >>

\* half extents and depth of the camera's view frame (camera-local units)
FrameHalfX == 1
FrameHalfY == 1
FrameDepth == 1

CameraTypes == {"PERSP", "ORTHO"}
Percentages == {50, 100, 200}
Resolutions == {<<4, 2>>}

Coord == -MaxCoord .. MaxCoord
\* raw local z of a vertex: -1 is in front of the camera (it looks down -z),
\* 0 is on the camera plane
Depths == {-1, 0}
Vertices == [x : Coord, y : Coord, z : Depths]
Meshes == UNION {[1 .. n -> Vertices] : n \in 0 .. MaxVerts}

Vec(x, y, z) == [x |-> x, y |-> y, z |-> z]
VNeg(v) == Vec(RNeg(v.x), RNeg(v.y), RNeg(v.z))
VDiv(v, k) == Vec(RDiv(v.x, k), RDiv(v.y, k), RDiv(v.z, k))

\* camera.view_frame(scene)[:3]: top-right, bottom-right, bottom-left corner
view_frame ==
  << Vec(Int2Rat(FrameHalfX), Int2Rat(FrameHalfY), Int2Rat(-FrameDepth)),
     Vec(Int2Rat(FrameHalfX), Int2Rat(-FrameHalfY), Int2Rat(-FrameDepth)),
     Vec(Int2Rat(-FrameHalfX), Int2Rat(-FrameHalfY), Int2Rat(-FrameDepth)) >>

\* frame = [-v for v in camera.view_frame(scene=scene)[:3]]
frame0 == [i \in 1 .. 3 |-> VNeg(view_frame[i])]

\* ------------------------------------------------------------------- Box
Box(min_x, min_y, max_x, max_y, dim_x, dim_y) ==
  [min_x |-> min_x, min_y |-> min_y, max_x |-> max_x, max_y |-> max_y,
   dim_x |-> dim_x, dim_y |-> dim_y]

BoxX(b) == RMul(b.min_x, b.dim_x)
BoxY(b) == RSub(b.dim_y, RMul(b.max_y, b.dim_y))
BoxWidth(b) == RMul(RSub(b.max_x, b.min_x), b.dim_x)
BoxHeight(b) == RMul(RSub(b.max_y, b.min_y), b.dim_y)

ZeroTuple == << Zero, Zero, Zero, Zero >>

to_tuple_and(b) ==
  IF BoxWidth(b) = Zero /\ BoxHeight(b) = Zero
  THEN ZeroTuple
  ELSE << BoxX(b), BoxY(b), BoxWidth(b), BoxHeight(b) >>

to_tuple(b) ==
  IF BoxWidth(b) = Zero \/ BoxHeight(b) = Zero
  THEN ZeroTuple
  ELSE << BoxX(b), BoxY(b), BoxWidth(b), BoxHeight(b) >>

clamp_none(x, minimum, maximum) == x

clamp(x, minimum, maximum) == RMax(minimum, RMin(x, maximum))

\* ------------------------------------------------- camera_view_bounds_2d
\* projection of one vertex against a frame: lines 116-119
ProjectX(co, frame) ==
  RDiv(RSub(Int2Rat(co.x), frame[2].x), RSub(frame[3].x, frame[2].x))

ProjectY(co, frame) ==
  RDiv(RSub(Int2Rat(co.y), frame[1].y), RSub(frame[2].y, frame[1].y))

\* frame = [(v / (v.z / z)) for v in frame]
Rescale(frame, z) == [i \in 1 .. 3 |-> VDiv(frame[i], RDiv(frame[i].z, z))]

\* rule (a): center_x in (0., 1.) and center_y in (0., 1.)
CentreRule_diag(center_x, center_y) ==
  center_x = center_y /\ center_x \in {Zero, One}

CentreRule(center_x, center_y) ==
  center_x \in {Zero, One} /\ center_y \in {Zero, One}

\* rules (b), (c): min(l) <= 0 and max(l) >= 1
StraddleRule(l) == RLe(SeqMin(l), Zero) /\ RLe(One, SeqMax(l))

\* The body of the for loop for the vertex v with the lists lx, ly and the
\* frame as they are on entry; the body ends in "return Box(...)".
LoopBody(camera_type, v, lx_in, ly_in, frame_in, render) ==
  LET z == Int2Rat(-v.z)
      camera_persp == camera_type # "ORTHO"
      zero_depth == camera_persp /\ z = Zero
      lx1 == IF zero_depth THEN Append(lx_in, Half) ELSE lx_in
      ly1 == IF zero_depth THEN Append(ly_in, Half) ELSE ly_in
      frame == IF camera_persp /\ z # Zero THEN Rescale(frame_in, z) ELSE frame_in
      lx == Append(lx1, ProjectX(v, frame))
      ly == Append(ly1, ProjectY(v, frame))
      center_x == clamp(RDiv(RAdd(SeqMax(lx), SeqMin(lx)), Int2Rat(2)), Zero, One)
      center_y == clamp(RDiv(RAdd(SeqMax(ly), SeqMin(ly)), Int2Rat(2)), Zero, One)
      bad_bbox == \/ CentreRule(center_x, center_y)
                  \/ StraddleRule(lx)
                  \/ StraddleRule(ly)
      min_x == IF bad_bbox THEN Zero ELSE clamp(SeqMin(lx), Zero, One)
      max_x == IF bad_bbox THEN Zero ELSE clamp(SeqMax(lx), Zero, One)
      min_y == IF bad_bbox THEN Zero ELSE clamp(SeqMin(ly), Zero, One)
      max_y == IF bad_bbox THEN Zero ELSE clamp(SeqMax(ly), Zero, One)
      fac == Rat(render.resolution_percentage, 100)
      dim_x == RMul(Int2Rat(render.resolution_x), fac)
      dim_y == RMul(Int2Rat(render.resolution_y), fac)
  IN  [ret |-> "Box",
       box |-> Box(min_x, min_y, max_x, max_y, dim_x, dim_y),
       lx |-> lx, ly |-> ly,
       center_x |-> center_x, center_y |-> center_y,
       divided |-> (camera_persp /\ z # Zero)]

\* The for loop returns from inside its first iteration; with no vertices
\* the loop body never runs and the function falls off its end (None).
camera_view_bounds_2d(camera_type, me, render) ==
  IF Len(me) = 0
  THEN [ret |-> "None"]
  ELSE LoopBody(camera_type, me[1], << >>, << >>, frame0, render)

\* np.count_nonzero(np.array(box)) != 0
CountNonzero(t) == Cardinality({i \in 1 .. Len(t) : t[i] # Zero})

\* me_ob.to_mesh(...) on the result of bpy.data.objects.get(label): a name
\* that does not resolve gives None, and None has no attribute to_mesh
AttributeError_never(me_ob) == FALSE

AttributeError(me_ob) == me_ob = "None"

\* write_bounds_2d after its frame_set: the Box (or None) that
\* camera_view_bounds_2d returned, the tuple of the Box and the returned
\* data; raised is the AttributeError of None.to_tuple()
write_bounds_2d(camera_type, me, render) ==
  LET r == camera_view_bounds_2d(camera_type, me, render)
      t == to_tuple(r.box)
  IN  IF r.ret = "None"
      THEN [r |-> r, raised |-> TRUE, tuple |-> None, data |-> None]
      ELSE [r |-> r, raised |-> FALSE, tuple |-> t,
            data |-> IF CountNonzero(t) # 0 THEN t ELSE None]

normalize(data, frame_width, frame_height) ==
  LET x_center == RDiv(RAdd(data[1], RDiv(data[3], Int2Rat(2))), Int2Rat(frame_width))
      y_center == RDiv(RAdd(data[2], RDiv(data[4], Int2Rat(2))), Int2Rat(frame_height))
      width == RDiv(data[3], Int2Rat(frame_width))
      height == RDiv(data[4], Int2Rat(frame_height))
  IN  << x_center, y_center, width, height >>

\* str(n) for n >= 0, as a sequence of characters
Digit(d) == << "0", "1", "2", "3", "4", "5", "6", "7", "8", "9" >>[d + 1]

RECURSIVE Str(_)
Str(n) == IF n < 10 THEN << Digit(n) >> ELSE Append(Str(n \div 10), Digit(n % 10))

\* s.zfill(width) for a string without sign
RECURSIVE zfill(_, _)
zfill(s, width) == IF Len(s) >= width THEN s ELSE zfill(<< "0" >> \o s, width)

\* f'frame_{frame_current_str}.txt' in labels_dir
LabelFileName(f) == << "frame_" >> \o zfill(Str(f), 4) \o << ".txt" >>

\* ------------------------------------------------------------------ state
VARIABLES
  pc,                  \* position in main / in the call under test
  camera_type,         \* camera.type
  render,              \* scene.render: resolution_x, resolution_y, resolution_percentage
  frame_start,         \* argument of main
  frame_end,           \* argument of main
  labeled_objects,     \* len(labeled_objects_names)
  range_next,          \* next value of range(frame_start, frame_end)
  frame_current,       \* loop variable of the frame loop (-1: unbound)
  label_i,             \* index of the loop over labeled_objects_names
  me_ob,               \* result of bpy.data.objects.get(label)
  scene_frame,         \* the scene's current-frame cursor (frame_set)
  all_data,            \* label lines of the frame being processed
  files,               \* label files written: name -> lines
  order,               \* history: frames in the order their files were saved
  unresolved,          \* history: <<frame, label index>> whose lookup gave None
  normalize_args,      \* history: the data tuples normalize was called with
  me,                  \* the evaluated mesh of the latest projection
  call                 \* the latest write_bounds_2d result

vars == << pc, camera_type, render, frame_start, frame_end, labeled_objects,
           range_next, frame_current, label_i, me_ob, scene_frame, all_data,
           files, order, unresolved, normalize_args, me, call >>

NoCall == [raised |-> FALSE, r |-> [ret |-> "NoCall"], tuple |-> None, data |-> None]

Renders == {[resolution_x |-> res[1], resolution_y |-> res[2],
             resolution_percentage |-> p] : res \in Resolutions, p \in Percentages}

\* meshes the scene of a run evaluates to: one-vertex meshes on or in front
\* of the camera plane, and the mesh without vertices
LoopVertices == {v \in Vertices : v.x = 1 /\ v.y \in {0, 1} /\ v.z \in {-1, 0}}
LoopMeshes == {<< >>} \cup {<< v >> : v \in LoopVertices}

\* frame_width = scene.render.resolution_x; frame_height = ...resolution_y
frame_width == render.resolution_x
frame_height == render.resolution_y

\* f"0 {x_center} {y_center} {width} {height}\n"; obj and at are history
\* tags: the labeled object and the cursor position the box was computed at
LabelLine(data, obj, at) ==
  LET n == normalize(data, frame_width, frame_height)
  IN  [class_id |-> 0, x_center |-> n[1], y_center |-> n[2],
       width |-> n[3], height |-> n[4], obj |-> obj, at |-> at]

\* ---------------------------------------------------- Spec: main's loop
Init ==
  /\ pc = "for_frame"
  /\ camera_type \in CameraTypes
  /\ render \in Renders
  /\ frame_start \in 0 .. MaxFrame
  /\ frame_end \in 0 .. MaxFrame
  /\ labeled_objects \in 0 .. MaxObjects
  /\ range_next = frame_start
  /\ frame_current = -1
  /\ label_i = 0
  /\ me_ob = "None"
  /\ scene_frame \in {0, MaxFrame}
  /\ all_data = << >>
  /\ files = << >>
  /\ order = << >>
  /\ unresolved = {}
  /\ normalize_args = {}
  /\ me = << >>
  /\ call = NoCall

\* for frame_current in range(frame_start, frame_end): all_data = ""
ForFrame ==
  /\ pc = "for_frame"
  /\ range_next < frame_end
  /\ frame_current' = range_next
  /\ range_next' = range_next + 1
  /\ all_data' = << >>
  /\ label_i' = 1
  /\ pc' = "for_label"
  /\ UNCHANGED << camera_type, render, frame_start, frame_end, labeled_objects,
                  me_ob, scene_frame, files, order, unresolved, normalize_args,
                  me, call >>

\* the range is exhausted: meta.json is written and main returns
Finish ==
  /\ pc = "for_frame"
  /\ range_next >= frame_end
  /\ pc' = "done"
  /\ UNCHANGED << camera_type, render, frame_start, frame_end, labeled_objects,
                  range_next, frame_current, label_i, me_ob, scene_frame,
                  all_data, files, order, unresolved, normalize_args, me, call >>

\* bpy.context.scene.frame_set(cur_frame), first statement of write_bounds_2d
frame_set_skip == scene_frame

frame_set == frame_current

\* me_ob = bpy.data.objects.get(label); write_bounds_2d(...) up to frame_set
WriteBoundsEnter ==
  /\ pc = "for_label"
  /\ label_i <= labeled_objects
  /\ \E found \in {"None", "Object"} :
        /\ me_ob' = found
        /\ unresolved' = IF found = "None"
                         THEN unresolved \cup {<< frame_current, label_i >>}
                         ELSE unresolved
  /\ scene_frame' = frame_set
  /\ pc' = "bounds"
  /\ UNCHANGED << camera_type, render, frame_start, frame_end, labeled_objects,
                  range_next, frame_current, label_i, all_data, files, order,
                  normalize_args, me, call >>

\* camera_view_bounds_2d raises on me_ob = None or write_bounds_2d raises on
\* None.to_tuple(): the exception is not caught and ends the run
WriteBoundsRaise ==
  /\ pc = "bounds"
  /\ \/ /\ AttributeError(me_ob)
        /\ UNCHANGED << me, call >>
     \/ /\ ~AttributeError(me_ob)
        /\ \E m \in LoopMeshes :
              \E c \in {write_bounds_2d(camera_type, m, render)} :
                /\ c.raised
                /\ me' = m
                /\ call' = c
  /\ pc' = "error"
  /\ UNCHANGED << camera_type, render, frame_start, frame_end, labeled_objects,
                  range_next, frame_current, label_i, me_ob, scene_frame,
                  all_data, files, order, unresolved, normalize_args >>

\* the rest of write_bounds_2d on the mesh evaluated at the cursor, then
\* "if data: normalize, all_data += line" and scene.frame_set(frame_current)
WriteBoundsReturn ==
  /\ pc = "bounds"
  /\ ~AttributeError(me_ob)
  /\ \E m \in LoopMeshes :
        \E c \in {write_bounds_2d(camera_type, m, render)} :
          \E data \in {c.data} :
            /\ ~c.raised
            /\ me' = m
            /\ call' = c
            /\ all_data' = IF data # None
                           THEN Append(all_data, LabelLine(data, label_i, scene_frame))
                           ELSE all_data
            /\ normalize_args' = IF data # None
                                 THEN normalize_args \cup {data}
                                 ELSE normalize_args
  /\ scene_frame' = frame_current
  /\ label_i' = label_i + 1
  /\ pc' = "for_label"
  /\ UNCHANGED << camera_type, render, frame_start, frame_end, labeled_objects,
                  range_next, frame_current, me_ob, files, order, unresolved >>

\* with open(label_filepath, 'w') as data: data.write(str(all_data))
SaveLabel ==
  /\ pc = "for_label"
  /\ label_i > labeled_objects
  /\ files' = [n \in DOMAIN files \cup {LabelFileName(frame_current)} |->
                 IF n = LabelFileName(frame_current) THEN all_data ELSE files[n]]
  /\ order' = Append(order, frame_current)
  /\ pc' = "for_frame"
  /\ UNCHANGED << camera_type, render, frame_start, frame_end, labeled_objects,
                  range_next, frame_current, label_i, me_ob, scene_frame,
                  all_data, unresolved, normalize_args, me, call >>

Next ==
  \/ ForFrame
  \/ Finish
  \/ WriteBoundsEnter
  \/ WriteBoundsRaise
  \/ WriteBoundsReturn
  \/ SaveLabel

Spec == Init /\ [][Next]_vars

\* ------------------------- SpecBox: one call of write_bounds_2d on a mesh
InitBox ==
  /\ pc = "call"
  /\ camera_type \in CameraTypes
  /\ render \in Renders
  /\ me = << >>
  /\ frame_start = 0
  /\ frame_end = 0
  /\ labeled_objects = 1
  /\ range_next = 0
  /\ frame_current = 0
  /\ label_i = 1
  /\ me_ob = "Object"
  /\ scene_frame = 0
  /\ all_data = << >>
  /\ files = << >>
  /\ order = << >>
  /\ unresolved = {}
  /\ normalize_args = {}
  /\ call = NoCall

\* write_bounds_2d on a camera, a render setting and any mesh of the bounds
CallBounds ==
  /\ pc = "call"
  /\ \E m \in Meshes :
        \E c \in {write_bounds_2d(camera_type, m, render)} :
          /\ me' = m
          /\ call' = c
  /\ pc' = "returned"
  /\ UNCHANGED << camera_type, render, frame_start, frame_end, labeled_objects,
                  range_next, frame_current, label_i, me_ob, scene_frame,
                  all_data, files, order, unresolved, normalize_args >>

NextBox == CallBounds

SpecBox == InitBox /\ [][NextBox]_vars

\* ============================================================== claims
\* the point the projection assigns to one vertex on its own: (0.5, 0.5)
\* for a zero-depth vertex of a perspective camera, else its fractional
\* position in the view frame at its depth
PointU(v) ==
  IF camera_type # "ORTHO" /\ v.z = 0 THEN Half
  ELSE IF camera_type # "ORTHO" THEN ProjectX(v, Rescale(frame0, Int2Rat(-v.z)))
  ELSE ProjectX(v, frame0)

PointV(v) ==
  IF camera_type # "ORTHO" /\ v.z = 0 THEN Half
  ELSE IF camera_type # "ORTHO" THEN ProjectY(v, Rescale(frame0, Int2Rat(-v.z)))
  ELSE ProjectY(v, frame0)

AllU == [i \in 1 .. Len(me) |-> PointU(me[i])]
AllV == [i \in 1 .. Len(me) |-> PointV(me[i])]

BoxReturned == call.r.ret = "Box"

BoxIsZero(b) ==
  b.min_x = Zero /\ b.min_y = Zero /\ b.max_x = Zero /\ b.max_y = Zero

Clamped01(x) == IF RLt(x, Zero) THEN Zero ELSE IF RLt(One, x) THEN One ELSE x

BoundsAreClamped(r) ==
  /\ r.box.min_x = Clamped01(SeqMin(r.lx))
  /\ r.box.max_x = Clamped01(SeqMax(r.lx))
  /\ r.box.min_y = Clamped01(SeqMin(r.ly))
  /\ r.box.max_y = Clamped01(SeqMax(r.ly))

\* C1: for every camera and every mesh with n >= 1 vertices the call
\* accumulates exactly one projected point per vertex, in vertex order, over
\* all n vertices, and the extent of the Box is the min and max over them
\* (stated for meshes without a zero-depth vertex under a perspective
\* camera; the contribution of such a vertex is the subject of C2).
C1_OnePointPerVertex ==
  (BoxReturned /\ (camera_type = "ORTHO" \/ \A i \in 1 .. Len(me) : me[i].z # 0)) =>
    /\ Len(call.r.lx) = Len(me)
    /\ Len(call.r.ly) = Len(me)
    /\ SeqMin(call.r.lx) = SeqMin(AllU) /\ SeqMax(call.r.lx) = SeqMax(AllU)
    /\ SeqMin(call.r.ly) = SeqMin(AllV) /\ SeqMax(call.r.ly) = SeqMax(AllV)

\* C2: under a perspective camera a vertex of local depth 0 contributes the
\* single point (0.5, 0.5) and nothing else to the accumulated extent, and
\* no division by the zero depth is performed (stated for one-vertex meshes,
\* where the accumulated lists hold that vertex's contribution only).
C2_ZeroDepthOnlyCentre ==
  (BoxReturned /\ camera_type # "ORTHO" /\ Len(me) = 1 /\ me[1].z = 0) =>
    /\ call.r.lx = << Half >>
    /\ call.r.ly = << Half >>
    /\ ~call.r.divided

\* C3: whenever the extent of the object's projected points straddles the
\* frame in u (min_u <= 0 and max_u >= 1) or in v, the Box is all zero,
\* to_tuple gives (0,0,0,0) and write_bounds_2d returns None (no label line).
C3_StraddleSuppressed ==
  (BoxReturned /\ (StraddleRule(AllU) \/ StraddleRule(AllV))) =>
    /\ BoxIsZero(call.r.box)
    /\ call.tuple = ZeroTuple
    /\ call.data = None

\* C4 as stated: with no straddle on either axis, rule (a) zeroes the Box
\* if and only if the clamped centre is (0,0) or (1,1); for every other
\* centre the bounds are the clamped min/max.
C4_CentreRuleTwoCorners ==
  (BoxReturned /\ ~StraddleRule(call.r.lx) /\ ~StraddleRule(call.r.ly)) =>
    LET diag == /\ call.r.center_x = call.r.center_y
                /\ call.r.center_x \in {Zero, One}
    IN  /\ diag <=> BoxIsZero(call.r.box)
        /\ ~diag => BoundsAreClamped(call.r)

\* C4 amended: with no straddle on either axis, rule (a) zeroes the Box if
\* and only if the clamped centre is one of the four corners (0,0), (0,1),
\* (1,0), (1,1); for every other centre the bounds are the clamped min/max.
C4_CentreRuleFourCorners ==
  (BoxReturned /\ ~StraddleRule(call.r.lx) /\ ~StraddleRule(call.r.ly)) =>
    LET corner == /\ call.r.center_x \in {Zero, One}
                  /\ call.r.center_y \in {Zero, One}
    IN  /\ corner <=> BoxIsZero(call.r.box)
        /\ ~corner => BoundsAreClamped(call.r)

\* a call whose clamped centre is an off-diagonal corner and whose Box is zero
C4_Witness ==
  /\ BoxReturned
  /\ ~StraddleRule(call.r.lx) /\ ~StraddleRule(call.r.ly)
  /\ call.r.center_x = Zero /\ call.r.center_y = One
  /\ BoxIsZero(call.r.box)

\* C5: every returned Box is all zero, or has 0 <= min <= max <= 1 on both
\* axes with each bound the accumulated min/max clamped to [0,1]; its pixel
\* box lies inside the render frame and has non-negative width and height.
C5_BoxWithinFrame ==
  BoxReturned =>
    LET b == call.r.box
    IN  /\ \/ BoxIsZero(b)
           \/ /\ RLe(Zero, b.min_x) /\ RLe(b.min_x, b.max_x) /\ RLe(b.max_x, One)
              /\ RLe(Zero, b.min_y) /\ RLe(b.min_y, b.max_y) /\ RLe(b.max_y, One)
              /\ BoundsAreClamped(call.r)
        /\ RLe(Zero, BoxX(b)) /\ RLe(RAdd(BoxX(b), BoxWidth(b)), b.dim_x)
        /\ RLe(Zero, BoxY(b)) /\ RLe(RAdd(BoxY(b), BoxHeight(b)), b.dim_y)
        /\ RLe(Zero, BoxWidth(b)) /\ RLe(Zero, BoxHeight(b))

\* a non-zero Box whose accumulated extent left the frame and was clamped
C5_Witness ==
  /\ BoxReturned
  /\ ~BoxIsZero(call.r.box)
  /\ RLt(SeqMin(call.r.lx), Zero)
  /\ RLt(Zero, BoxWidth(call.r.box)) /\ RLt(Zero, BoxHeight(call.r.box))

\* the label lines of s that belong to labeled object o
LinesOf(s, o) == {i \in 1 .. Len(s) : s[i].obj = o}

\* every label line the run has produced: in a saved file or in all_data
AllLines ==
  {all_data[i] : i \in 1 .. Len(all_data)} \cup
  UNION {{files[n][i] : i \in 1 .. Len(files[n])} : n \in DOMAIN files}

\* the latest call was made for the previous labeled object of this frame
CallOfThisFrame == pc = "for_label" /\ label_i >= 2 /\ BoxReturned

\* C6: normalize is never called with a pixel box of width or height 0: a
\* Box of pixel width 0 or height 0 gives the all-zero tuple, write_bounds_2d
\* returns None exactly for the all-zero tuple, the loop normalizes only a
\* non-None result, and every Box of non-zero width and height gives
\* (x, y, width, height) and reaches normalize.
C6_NormalizeNeverZeroSize ==
  /\ \A d \in normalize_args : d # None /\ d[3] # Zero /\ d[4] # Zero
  /\ CallOfThisFrame =>
       LET b == call.r.box
           flat == BoxWidth(b) = Zero \/ BoxHeight(b) = Zero
       IN  /\ flat => /\ call.tuple = ZeroTuple
                      /\ LinesOf(all_data, label_i - 1) = {}
           /\ ~flat => /\ call.tuple = << BoxX(b), BoxY(b), BoxWidth(b), BoxHeight(b) >>
                       /\ call.data = call.tuple
                       /\ call.data \in normalize_args
                       /\ LinesOf(all_data, label_i - 1) # {}
           /\ (call.data = None) <=> (call.tuple = ZeroTuple)

\* a Box of non-zero width and zero height was filtered in a run in which
\* normalize has been called
C6_Witness ==
  /\ CallOfThisFrame
  /\ BoxWidth(call.r.box) # Zero /\ BoxHeight(call.r.box) = Zero
  /\ call.data = None
  /\ normalize_args # {}

\* C7: every label line has class id 0 and x_center, y_center, width and
\* height within [0,1], for every resolution and resolution percentage.
C7_LabelsInUnitRange ==
  \A l \in AllLines :
    /\ l.class_id = 0
    /\ RLe(Zero, l.x_center) /\ RLe(l.x_center, One)
    /\ RLe(Zero, l.y_center) /\ RLe(l.y_center, One)
    /\ RLe(Zero, l.width) /\ RLe(l.width, One)
    /\ RLe(Zero, l.height) /\ RLe(l.height, One)

\* C8: when main completes with frame_start <= frame_end, exactly one label
\* file exists for every frame f with frame_start <= f <= frame_end, named
\* frame_ and the zero-padded 4-digit f, and there is no other label file.
C8_FileForEveryFrame ==
  (pc = "done" /\ frame_start <= frame_end) =>
    DOMAIN files = {LabelFileName(f) : f \in frame_start .. frame_end}

\* C9: frames are labelled in strictly increasing order; every line of frame
\* f's file was computed while the cursor was at f, the cursor being at the
\* frame from frame_set to the projection; a frame's text starts empty and
\* holds only lines of that frame, at most one per labeled object.
C9_LinesComputedAtTheirFrame ==
  /\ \A i, j \in 1 .. Len(order) : i < j => order[i] < order[j]
  /\ DOMAIN files = {LabelFileName(order[k]) : k \in 1 .. Len(order)}
  /\ \A k \in 1 .. Len(order) :
         LET text == files[LabelFileName(order[k])]
         IN  /\ \A i \in 1 .. Len(text) : text[i].at = order[k]
             /\ \A o \in 1 .. labeled_objects : Cardinality(LinesOf(text, o)) <= 1
             /\ Len(text) <= labeled_objects
  /\ pc = "bounds" => scene_frame = frame_current
  /\ pc \in {"for_label", "bounds"} =>
       /\ \A i \in 1 .. Len(all_data) :
            all_data[i].at = frame_current /\ all_data[i].obj < label_i
       /\ \A o \in 1 .. labeled_objects : Cardinality(LinesOf(all_data, o)) <= 1
  /\ (pc = "for_label" /\ label_i = 1) => all_data = << >>

\* a second frame's file has been saved with a line computed at that frame
C9_Witness ==
  /\ Len(order) >= 2
  /\ files[LabelFileName(order[2])] # << >>
  /\ files[LabelFileName(order[2])][1].at = order[2]

\* C10: when the lookup of a labeled-object name returns no object the run
\* ends in the fatal error state before the label file of the frame being
\* processed is written; no frame and no run finishes with it omitted.
C10_MissingObjectIsFatal ==
  unresolved # {} =>
    /\ unresolved = {<< frame_current, label_i >>}
    /\ me_ob = "None"
    /\ pc \in {"bounds", "error"}
    /\ LabelFileName(frame_current) \notin DOMAIN files

\* the run has stopped on a missing object after an earlier frame was saved
C10_Witness ==
  /\ pc = "error"
  /\ << frame_current, label_i >> \in unresolved
  /\ files # << >>
  /\ LabelFileName(frame_current) \notin DOMAIN files

\* C11: camera_view_bounds_2d returns a Box for every mesh, a mesh with no
\* vertices included, so that to_tuple on its result never fails; a labeled
\* object without vertices gives no label line (write_bounds_2d returns
\* None) and the frame loop goes on with the next object.
C11_EmptyMeshGivesNoLine ==
  (call.r.ret # "NoCall" /\ Len(me) = 0) =>
    /\ call.r.ret = "Box"
    /\ ~call.raised
    /\ call.data = None
    /\ pc = "for_label"
    /\ LinesOf(all_data, label_i - 1) = {}

====
